---- MODULE Spec2Model ----
(***************************************************************************)
(* Model of the WeeklyScheduler control and its SchedulingItem entity      *)
(* (packages/azos-ui/vcl/time/scheduler.js).                               *)
(*                                                                         *)
(* A JavaScript Date is the record [day, tod]: `day` counts calendar days  *)
(* (day 0 is a Sunday, so getDay() is day % 7) and `tod` is the time of    *)
(* day: 0 is midnight, 1 some moment during the day, 2 is 23:59:59.099.    *)
(* setDate(getDate() + k) is day + k: the Date normalises month overflow.  *)
(* Local-time effects (daylight saving) are not modelled, and `new Date()` *)
(* returns the same moment `now` throughout a behaviour.                   *)
(* A nullable field holds <<>> for null/undefined and <<v>> for a value.   *)
(*                                                                         *)
(* The scheduler object is the record `sch`; every method and accessor is  *)
(* an operator from a scheduler record to the scheduler record it leaves   *)
(* behind (accessors with side effects return [s |-> record, v |-> value]).*)
(***************************************************************************)
EXTENDS Integers, Sequences, FiniteSets, TLC

VARIABLES
  sch,    \* the WeeklyScheduler instance: its private and public fields
  seed,   \* SchedulingItem.#seed, the class-wide id counter
  now,    \* what `new Date()` returns
  log,    \* history: the items addItem returned since the store was last empty, in
          \* call order
  clicks, \* history: the items #handleSelectItem was called with, in call order
  last,   \* history: the last operation, its argument and how it ended
  changes \* the beginChanges/endChanges bracket: its depth, and whether an addItem
          \* inside it is still waiting for its recomputation

vars == <<sch, seed, now, log, clicks, last, changes>>

\* ------------------------------------------------------------------ bounds
MaxItems == 2
MaxStoreItems == 3
FirstDay == 7
LastDay == 27
MaxToggles == 5
MaxGridItems == 2
MaxChangeItems == 2
MaxDepth == 2
MaxCalls == 3
MaxReadItems == 2

\* ------------------------------------------------------- program constants
MONDAY == 1
DefaultViewNumDays == 6
DefaultRenderOffMins == 60
DefaultGranularityMins == 30
DefaultMaxSelectedItems == 2
DefaultStartTimeMins == 540
DefaultEndTimeMins == 1020
DaysPerWeek == 7
Day20241228 == 13

\* ------------------------------------------------------------ nullable, Date
None == <<>>
Some(x) == <<x>>
IsSome(o) == o # <<>>
Val(o) == o[1]

MkDate(d, t) == [day |-> d, tod |-> t]
getDay(date) == date.day % DaysPerWeek
setHoursMidnight(date) == [date EXCEPT !.tod = 0]
setHoursEndOfDay(date) == [date EXCEPT !.tod = 2]
addDays(date, k) == [date EXCEPT !.day = @ + k]
\* a.valueOf() < b.valueOf()
DateLT(a, b) == a.day < b.day \/ (a.day = b.day /\ a.tod < b.tod)
\* a.toLocaleDateString() === b.toLocaleDateString(), toDateString likewise
SameCalendarDate(a, b) == a.day = b.day

\* no beginChanges/endChanges bracket is open
NoChanges == [depth |-> 0, pending |-> FALSE]

\* ------------------------------------------------------- Array.prototype
\* JS slice(from, to) on a 1-based sequence; negative indexes count from the end.
Clamp(i, len) == IF i < 0 THEN (IF len + i < 0 THEN 0 ELSE len + i)
                 ELSE (IF i > len THEN len ELSE i)
Slice(seq, from, to) ==
  LET a == Clamp(from, Len(seq))
      b == Clamp(to, Len(seq))
  IN IF a < b THEN SubSeq(seq, a + 1, b) ELSE <<>>

Reverse(seq) == [i \in 1..Len(seq) |-> seq[Len(seq) + 1 - i]]

\* findIndex: `tests` holds the callback's result for every element in order; the
\* 0-based index of the first TRUE, or -1.
FindIndex(tests) ==
  LET hits == {i \in 1..Len(tests) : tests[i]}
  IN IF hits = {} THEN -1 ELSE (CHOOSE i \in hits : \A j \in hits : i <= j) - 1

\* 0-based index of x in seq, or -1 (indexOf).
IndexOf(seq, x) == FindIndex([i \in 1..Len(seq) |-> seq[i] = x])

\* splice(i, 1) with a 0-based index i
Splice1(seq, i) == SubSeq(seq, 1, i) \o SubSeq(seq, i + 2, Len(seq))

\* ------------------------------------------------------------ SchedulingItem
\* new SchedulingItem({day, startTimeMins, durationMins, ...}): the id comes from
\* the class-wide counter (#id = ++SchedulingItem.#seed); day is kept as given.
SchedulingItem(spec, sd) ==
  [id |-> sd + 1, day |-> spec.day,
   startTimeMins |-> spec.startTimeMins, durationMins |-> spec.durationMins]

\* The constructor body runs to its end: aver.isDate(day), aver.isNumber(startTimeMins)
\* and aver.isNumber(durationMins) throw on a property the caller left out, and
\* nothing else is tested. A property the caller left out is a field the record
\* does not have.
constructs(spec) ==
  /\ "day" \in DOMAIN spec
  /\ "startTimeMins" \in DOMAIN spec
  /\ "durationMins" \in DOMAIN spec

\* The end taken as the first minute after the item.
endTimeMinsExclusive(item) == item.startTimeMins + item.durationMins

\* get endTimeMins()
endTimeMins(item) == item.startTimeMins + item.durationMins - 1

\* ------------------------------------------------------------ view window
\* get effectiveStartDate()
get_effectiveStartDate(s) ==
  IF IsSome(s.effectiveStartDate) THEN [s |-> s, v |-> Val(s.effectiveStartDate)]
  ELSE LET d == IF Len(s.schedulingItemsByDay) > 0
                THEN s.schedulingItemsByDay[1].day ELSE now
       IN [s |-> [s EXCEPT !.effectiveStartDate = Some(d), !.viewStartDate = None],
           v |-> d]

\* get effectiveEndDate()
get_effectiveEndDate(s) ==
  IF IsSome(s.effectiveEndDate) THEN [s |-> s, v |-> Val(s.effectiveEndDate)]
  ELSE LET n == Len(s.schedulingItemsByDay)
           d == IF n > 0 THEN s.schedulingItemsByDay[n].day ELSE now
       IN [s |-> [s EXCEPT !.effectiveEndDate = Some(d)], v |-> d]

\* calculateStartDate(date): dt.setDate(dt.getDate() - dt.getDay() + viewStartDay)
calculateStartDate(s, date) ==
  LET dt == setHoursMidnight(date)
  IN addDays(dt, s.viewStartDay - getDay(dt))

\* get viewStartDate()
get_viewStartDate(s) ==
  IF IsSome(s.viewStartDate) THEN [s |-> s, v |-> Val(s.viewStartDate)]
  ELSE LET e == get_effectiveStartDate(s)
           d == calculateStartDate(e.s, e.v)
       IN [s |-> [e.s EXCEPT !.viewStartDate = Some(d)], v |-> d]

\* The setter without its weekday check.
set_viewStartDateUnchecked(s, v) ==
  [s |-> [s EXCEPT !.viewStartDate = Some(setHoursMidnight(v)), !.daysView = None],
   ok |-> TRUE]

\* The setter assigning before it checks the weekday.
set_viewStartDateAssignFirst(s, v) ==
  [s |-> [s EXCEPT !.viewStartDate = Some(setHoursMidnight(v)), !.daysView = None],
   ok |-> getDay(v) = s.viewStartDay]

\* set viewStartDate(v): [s |-> scheduler afterwards, ok |-> FALSE when aver throws]
set_viewStartDate(s, v) ==
  LET v0 == setHoursMidnight(v)
  IN IF getDay(v0) # s.viewStartDay
     THEN [s |-> s, ok |-> FALSE]
     ELSE [s |-> [s EXCEPT !.viewStartDate = Some(v0), !.daysView = None],
           ok |-> TRUE]

\* set viewStartDay(v)
set_viewStartDay(s, v) ==
  IF ~(v >= 0 /\ v < DaysPerWeek) THEN [s |-> s, ok |-> FALSE]
  ELSE [s |-> [s EXCEPT !.viewStartDay = v], ok |-> TRUE]

\* Paging counted from the first page of the data instead of the current page.
changeViewPageFromFirstPage(s, count) ==
  LET g == get_viewStartDate(s)
      e == get_effectiveStartDate(g.s)
      date == addDays(calculateStartDate(e.s, e.v), DaysPerWeek * count)
  IN set_viewStartDate(g.s, date)

\* changeViewPage(count)
changeViewPage(s, count) ==
  LET g == get_viewStartDate(s)
      date == addDays(g.v, DaysPerWeek * count)
  IN set_viewStartDate(g.s, date)

\* get viewEndDate()
get_viewEndDate(s) ==
  LET g == get_viewStartDate(s)
  IN [s |-> g.s, v |-> addDays(setHoursEndOfDay(g.v), g.s.viewNumDays)]

\* ---------------------------------------------------------- time bounds
\* d.day === this.#viewStartDate compares object identity: a bucket's day is the
\* Date of its first item, #viewStartDate is null or a Date of its own.
SameObject(bucketDay, field) == FALSE

RECURSIVE MinOver(_, _)
MinOver(seq, acc) ==
  IF seq = <<>> THEN acc
  ELSE MinOver(Tail(seq), IF IsSome(acc) /\ ~(Head(seq) < Val(acc)) THEN acc
                           ELSE Some(Head(seq)))

RECURSIVE MaxOver(_, _)
MaxOver(seq, acc) ==
  IF seq = <<>> THEN acc
  ELSE MaxOver(Tail(seq), IF Head(seq) > acc THEN Head(seq) ELSE acc)

\* #calculateMinStartTime(): null or the minimum
calculateMinStartTime(s) ==
  LET startDateIndex ==
        FindIndex([i \in 1..Len(s.schedulingItemsByDay) |->
                     SameObject(s.schedulingItemsByDay[i].day, s.viewStartDate)])
      viewDays == Slice(s.schedulingItemsByDay, startDateIndex,
                        startDateIndex + s.viewNumDays)
      firsts == [i \in 1..Len(viewDays) |-> viewDays[i].items[1].startTimeMins]
  IN MinOver(firsts, None)

\* #calculateMaxEndTime(): reads this.viewStartDate once a bucket is looked at
calculateMaxEndTime(s) ==
  LET g == IF Len(s.schedulingItemsByDay) = 0 THEN [s |-> s, v |-> now]
           ELSE get_viewStartDate(s)
      reversed == Reverse(s.schedulingItemsByDay)
      startDateIndex ==
        1 + FindIndex([i \in 1..Len(reversed) |-> DateLT(reversed[i].day, g.v)])
      viewDays == Slice(s.schedulingItemsByDay, startDateIndex,
                        startDateIndex + s.viewNumDays)
      lasts == [i \in 1..Len(viewDays) |->
                  endTimeMins(viewDays[i].items[Len(viewDays[i].items)])]
      maxTime == MaxOver(lasts, 0)
  IN [s |-> g.s, v |-> IF maxTime = 0 THEN None ELSE Some(maxTime)]

\* The recomputation without the two invalidations before it.
updateViewPropertiesNoInvalidate(s) ==
  LET mn == calculateMinStartTime(s)
      s2 == [s EXCEPT !.viewStartTimeMins =
                         IF IsSome(mn) THEN Val(mn) ELSE DefaultStartTimeMins]
      mx == calculateMaxEndTime(s2)
  IN [mx.s EXCEPT !.viewEndTimeMins =
                     IF IsSome(mx.v) THEN Val(mx.v) ELSE DefaultEndTimeMins]

\* The recomputation without the ?? defaults: the bounds stay when there is no item.
updateViewPropertiesNoDefaults(s) ==
  LET s1 == [s EXCEPT !.effectiveStartDate = None, !.viewStartDate = None]
      mn == calculateMinStartTime(s1)
      s2 == [s1 EXCEPT !.viewStartTimeMins =
                          IF IsSome(mn) THEN Val(mn) ELSE s1.viewStartTimeMins]
      mx == calculateMaxEndTime(s2)
  IN [mx.s EXCEPT !.viewEndTimeMins =
                     IF IsSome(mx.v) THEN Val(mx.v) ELSE mx.s.viewEndTimeMins]

\* #updateViewProperties()
updateViewProperties(s) ==
  LET s1 == [s EXCEPT !.effectiveStartDate = None, !.viewStartDate = None]
      mn == calculateMinStartTime(s1)
      s2 == [s1 EXCEPT !.viewStartTimeMins =
                          IF IsSome(mn) THEN Val(mn) ELSE DefaultStartTimeMins]
      mx == calculateMaxEndTime(s2)
  IN [mx.s EXCEPT !.viewEndTimeMins =
                     IF IsSome(mx.v) THEN Val(mx.v) ELSE DefaultEndTimeMins]

\* ------------------------------------------------------------------ store
\* A sort that leaves the array as it is.
SortSkipped(seq) == seq

\* schedulingItemsByDay.sort((a, b) => new Date(a.day) - new Date(b.day)), stable
RECURSIVE InsertByDay(_, _)
InsertByDay(sorted, b) ==
  IF sorted = <<>> THEN <<b>>
  ELSE IF DateLT(b.day, Head(sorted).day) THEN <<b>> \o sorted
  ELSE <<Head(sorted)>> \o InsertByDay(Tail(sorted), b)

RECURSIVE SortByDay(_)
SortByDay(seq) ==
  IF seq = <<>> THEN <<>>
  ELSE InsertByDay(SortByDay(SubSeq(seq, 1, Len(seq) - 1)), seq[Len(seq)])

\* find(d => item.day.toLocaleDateString() === d.day.toLocaleDateString())
FindBucket(buckets, day) ==
  FindIndex([i \in 1..Len(buckets) |-> SameCalendarDate(day, buckets[i].day)])

\* The item put in front of the bucket's items instead of behind them.
UnshiftItem(items, item) == <<item>> \o items

\* found.items.push(item)
PushItem(items, item) == Append(items, item)

\* addItem(item) on a plain object up to found.items.push(item): the item is
\* built and put into the bucket of its day
storeItem(s, spec, sd) ==
  LET item == SchedulingItem(spec, sd)
      at == FindBucket(s.schedulingItemsByDay, item.day)
      buckets == IF at >= 0 THEN s.schedulingItemsByDay
                 ELSE SortByDay(Append(s.schedulingItemsByDay,
                                       [day |-> item.day, items |-> <<>>]))
      i == FindBucket(buckets, item.day) + 1
      pushed == [buckets EXCEPT ![i].items = PushItem(@, item)]
  IN [s EXCEPT !.schedulingItemsByDay = pushed]

\* addItem(item) on a plain object: the scheduler afterwards
addItem(s, spec, sd) == updateViewProperties(storeItem(s, spec, sd))

\* calculateTheDaysItems(date): found?.items
calculateTheDaysItems(s, date) ==
  LET at == FindIndex([i \in 1..Len(s.schedulingItemsByDay) |->
                         SameCalendarDate(s.schedulingItemsByDay[i].day, date)])
  IN IF at < 0 THEN None ELSE Some(s.schedulingItemsByDay[at + 1].items)

\* addItem(item) on any plain object: new SchedulingItem(item) takes an id from the
\* class counter (a field initialiser, it runs before the constructor body) and
\* throws before the store is touched, or the item is added.
\* [s |-> scheduler afterwards, ok |-> FALSE when it threw, sd |-> counter afterwards]
tryAddItem(s, spec, sd) ==
  IF constructs(spec)
  THEN [s |-> addItem(s, spec, sd), ok |-> TRUE, sd |-> sd + 1]
  ELSE [s |-> s, ok |-> FALSE, sd |-> sd + 1]

\* ------------------------------------------------- changes bracket, purge
\* The showcase (part_000) calls beginChanges(), endChanges() and purge() on the
\* scheduler; their bodies are not among the sources, so they follow the
\* specification: a depth counter, addItem inside a bracket stores the item and
\* leaves invalidation and recomputation to the endChanges that closes the
\* outermost bracket, and purge empties the store and resets what is derived
\* from it.
beginChanges(c) == [c EXCEPT !.depth = @ + 1]

\* [s |-> scheduler afterwards, c |-> bracket afterwards, flushed |-> whether the
\* deferred #updateViewProperties() ran]
endChanges(s, c) ==
  IF c.depth = 1 /\ c.pending
  THEN [s |-> updateViewProperties(s), c |-> NoChanges, flushed |-> TRUE]
  ELSE [s |-> s, c |-> [c EXCEPT !.depth = @ - 1], flushed |-> FALSE]

\* addItem(item) of a scheduler that has the bracket
addItemInChanges(s, spec, sd, c) ==
  IF c.depth > 0
  THEN [s |-> storeItem(s, spec, sd), c |-> [c EXCEPT !.pending = TRUE]]
  ELSE [s |-> addItem(s, spec, sd), c |-> c]

purge(s) ==
  updateViewProperties([s EXCEPT !.schedulingItemsByDay = <<>>,
                                 !.effectiveEndDate = None,
                                 !.daysView = None,
                                 !.timeSlotsView = None])

\* ------------------------------------------------------------- time slots
RECURSIVE SlotsFrom(_, _, _)
SlotsFrom(s, currentMins, renderEndMins) ==
  IF currentMins < renderEndMins
  THEN <<<<currentMins,
           currentMins >= s.viewStartTimeMins /\ currentMins < s.viewEndTimeMins>>>>
       \o SlotsFrom(s, currentMins + s.timeViewGranularityMins, renderEndMins)
  ELSE <<>>

\* The loop running while currentMins <= renderEndMins.
SlotsThrough(s, currentMins, renderEndMins) ==
  SlotsFrom(s, currentMins, renderEndMins + 1)

\* the loop of the getter
GenerateSlots(s, renderStartMins, renderEndMins) ==
  SlotsFrom(s, renderStartMins, renderEndMins)

\* The setter storing what it is given.
set_timeViewGranularityMinsAssigns(s, v) ==
  [s |-> [s EXCEPT !.timeViewGranularityMins = v], ok |-> TRUE]

\* set timeViewGranularityMins(v) { throw Error("Unimplemented...") }
set_timeViewGranularityMins(s, v) == [s |-> s, ok |-> FALSE]

\* get timeSlotsView()
get_timeSlotsView(s) ==
  IF IsSome(s.timeSlotsView) THEN [s |-> s, v |-> Val(s.timeSlotsView)]
  ELSE LET slots == GenerateSlots(s, s.viewStartTimeMins - s.timeViewRenderOffMins,
                                  s.viewEndTimeMins + s.timeViewRenderOffMins)
       IN [s |-> [s EXCEPT !.timeSlotsView = Some(slots)], v |-> slots]

\* -------------------------------------------------------------- placement
\* The search returning the last item that starts at the slot.
findLastItem(thisDayItems, slotMins) ==
  IF ~IsSome(thisDayItems) THEN None
  ELSE LET items == Reverse(Val(thisDayItems))
           at == FindIndex([k \in 1..Len(items) |-> items[k].startTimeMins = slotMins])
       IN IF at < 0 THEN None ELSE Some(items[at + 1])

\* thisDayItems?.find(item => item.startTimeMins === slotMins)
findItem(thisDayItems, slotMins) ==
  IF ~IsSome(thisDayItems) THEN None
  ELSE LET items == Val(thisDayItems)
           at == FindIndex([k \in 1..Len(items) |-> items[k].startTimeMins = slotMins])
       IN IF at < 0 THEN None ELSE Some(items[at + 1])

\* The span rounded up to whole slots.
rowSpanCeil(foundItem, granularityMins) ==
  (foundItem.durationMins + granularityMins - 1) \div granularityMins

\* rowSpan = Math.floor(foundItem.durationMins / this.timeViewGranularityMins)
rowSpan(foundItem, granularityMins) == foundItem.durationMins \div granularityMins

\* The for loop of renderTimeCells from index i on. One record is pushed by
\* every iteration: the item found at the slot (or none), its rowSpan and the
\* index the iteration started at. The iteration depends on i alone, so an index
\* met a second time means the loop never ends ("loops"); an index below zero
\* makes the destructuring of timeSlotsView[i] throw ("throws").
RECURSIVE TimeCellsFrom(_, _, _, _, _, _)
TimeCellsFrom(slots, thisDayItems, granularityMins, i, visited, toRender) ==
  IF i >= Len(slots) THEN [records |-> toRender, outcome |-> "done"]
  ELSE IF i < 0 THEN [records |-> toRender, outcome |-> "throws"]
  ELSE IF i \in visited THEN [records |-> toRender, outcome |-> "loops"]
  ELSE LET slotMins == slots[i + 1][1]
           inView == slots[i + 1][2]
           foundItem == IF inView THEN findItem(thisDayItems, slotMins) ELSE None
           span == IF IsSome(foundItem)
                   THEN Some(rowSpan(Val(foundItem), granularityMins)) ELSE None
           j == IF IsSome(foundItem) THEN i + Val(span) - 1 ELSE i
       IN TimeCellsFrom(slots, thisDayItems, granularityMins, j + 1, visited \cup {i},
                        Append(toRender,
                               [item |-> foundItem, span |-> span, slotIndex |-> i]))

\* renderTimeCells(date): [s |-> the scheduler afterwards (the axis is cached by
\* the read), records |-> toRender, outcome |-> how the loop ended]
renderTimeCells(s, date) ==
  LET axis == get_timeSlotsView(s)
      cells == TimeCellsFrom(axis.v, calculateTheDaysItems(axis.s, date),
                             axis.s.timeViewGranularityMins, 0, {}, <<>>)
  IN [s |-> axis.s, records |-> cells.records, outcome |-> cells.outcome]

\* set schedulingItemsByDay(v): addItem for every item of every day of v;
\* [s |-> the scheduler afterwards, items |-> the items created]
RECURSIVE AddEach(_, _, _)
AddEach(acc, day, items) ==
  IF items = <<>> THEN acc
  ELSE LET spec == [day |-> day, startTimeMins |-> Head(items).sta,
                    durationMins |-> Head(items).dur]
           sd == Len(acc.items)
       IN AddEach([s |-> addItem(acc.s, spec, sd),
                   items |-> Append(acc.items, SchedulingItem(spec, sd))],
                  day, Tail(items))

RECURSIVE AddDays(_, _)
AddDays(acc, v) ==
  IF v = <<>> THEN acc
  ELSE AddDays(AddEach(acc, Head(v).day, Head(v).items), Tail(v))

set_schedulingItemsByDay(s, v) == AddDays([s |-> s, items |-> <<>>], v)

\* -------------------------------------------------------------- selection
\* The capacity test written with > in place of >=.
handleSelectItemOffByOne(s, item) ==
  LET itemIndex == IndexOf(s.selectedItems, item)
  IN IF itemIndex > -1
     THEN [s EXCEPT !.selectedItems = Splice1(@, itemIndex)]
     ELSE IF Len(s.selectedItems) > s.maxSelectedItems
          THEN IF s.maxSelectedItems > 1 THEN s
               ELSE [s EXCEPT !.selectedItems = <<item>>]
          ELSE [s EXCEPT !.selectedItems = Append(@, item)]

\* #handleSelectItem(item)
handleSelectItem(s, item) ==
  LET itemIndex == IndexOf(s.selectedItems, item)
  IN IF itemIndex > -1
     THEN [s EXCEPT !.selectedItems = Splice1(@, itemIndex)]
     ELSE IF Len(s.selectedItems) >= s.maxSelectedItems
          THEN IF s.maxSelectedItems > 1 THEN s
               ELSE [s EXCEPT !.selectedItems = <<item>>]
          ELSE [s EXCEPT !.selectedItems = Append(@, item)]

\* ------------------------------------------------------------- formatting
\* A string is the sequence of its characters.
DigitChar(d) == <<"0", "1", "2", "3", "4", "5", "6", "7", "8", "9">>[d + 1]

\* n.toString() of a natural number
RECURSIVE NumberToString(_)
NumberToString(n) ==
  IF n < 10 THEN <<DigitChar(n)>>
  ELSE Append(NumberToString(n \div 10), DigitChar(n % 10))

\* str.padStart(2, "0")
PadStart2(str) == IF Len(str) < 2 THEN <<"0">> \o str ELSE str

\* The hour of the 12-hour clock without the || 12.
hour12NoTwelve(hour) == hour % 12

\* hour % 12 || 12
hour12(hour) == IF hour % 12 = 0 THEN 12 ELSE hour % 12

\* #formatTime(minsOfDay, {omitMinutesForWholeHours, omitMeridianSuffix,
\* use24HourTime}): [text |-> timeString, meridiem |-> what the template appends
\* after timeString and &nbsp;, if anything]
formatTime(minsOfDay, options) ==
  LET mins == minsOfDay % 60
      hour == minsOfDay \div 60
      minutes == IF options.omitMinutesForWholeHours /\ mins = 0 THEN <<>>
                 ELSE <<":">> \o PadStart2(NumberToString(mins))
  IN IF options.use24HourTime
     THEN [text |-> PadStart2(NumberToString(hour)) \o minutes, meridiem |-> None]
     ELSE [text |-> NumberToString(hour12(hour)) \o minutes,
           meridiem |-> IF options.omitMeridianSuffix THEN None
                        ELSE Some(IF hour < 12 THEN "am" ELSE "pm")]

\* ------------------------------------------------------------ constructor
\* The field initialisers and constructor(); #updateViewProperties() on the empty
\* store leaves the defaults.
Constructed ==
  updateViewProperties(
    [effectiveStartDate |-> None, effectiveEndDate |-> None,
     viewStartDay |-> MONDAY, viewNumDays |-> DefaultViewNumDays,
     viewStartDate |-> None, daysView |-> None, timeSlotsView |-> None,
     viewStartTimeMins |-> 0, viewEndTimeMins |-> 0,
     schedulingItemsByDay |-> <<>>,
     selectedItems |-> <<>>, maxSelectedItems |-> DefaultMaxSelectedItems,
     enabledStartDate |-> None, enabledEndDate |-> None,
     timeViewRenderOffMins |-> DefaultRenderOffMins,
     timeViewGranularityMins |-> DefaultGranularityMins])

\* ------------------------------------------------------------------ inputs
Weekdays == 0..(DaysPerWeek - 1)
NowDates == {MkDate(16, 1)}
\* Sunday 2024-12-29 at midnight and Wednesday 2025-01-01 during the day
ViewItemSpecs ==
  {[day |-> d, startTimeMins |-> 540, durationMins |-> 60] :
     d \in {MkDate(14, 0), MkDate(17, 1)}}
StoreItemSpecs ==
  {[day |-> MkDate(d, t), startTimeMins |-> m, durationMins |-> 30] :
     d \in {Day20241228, 14, 15}, t \in {0, 1}, m \in {540, 600}}
PageCounts == {-2, -1, 0, 1, 2}
StartDateInputs == {MkDate(8, 0), MkDate(15, 1), MkDate(17, 0)}
NumDaysInputs == {6, 7}

\* ------------------------------------------------------------------ history
\* op: the operation; ok: FALSE when it threw; count, arg: its argument;
\* pre: what viewStartDate returned before a changeViewPage; prev: the count and pre
\* of the changeViewPage right before this one, when there was one.
Did(op) == [op |-> op, ok |-> TRUE, count |-> 0, arg |-> None, pre |-> None, prev |-> None]

\* what a read of viewStartDate returns in the current state
ViewStartDateValue == get_viewStartDate(sch).v

\* ------------------------------------------------------------------- actions
InitBase ==
  /\ now \in NowDates
  /\ sch = Constructed
  /\ seed = 0
  /\ log = <<>>
  /\ clicks = <<>>
  /\ last = Did("constructor")
  /\ changes = NoChanges

AddItem(specs, max) ==
  \E sp \in specs :
    /\ Len(log) < max
    /\ sch' = addItem(sch, sp, seed)
    /\ seed' = seed + 1
    /\ log' = Append(log, SchedulingItem(sp, seed))
    /\ last' = Did("addItem")
    /\ UNCHANGED <<now, clicks, changes>>

ChangeViewPage ==
  \E count \in PageCounts :
    LET r == changeViewPage(sch, count)
    IN /\ get_viewStartDate(r.s).v.day \in FirstDay..LastDay
       /\ sch' = r.s
       /\ last' = [Did("changeViewPage") EXCEPT
                     !.ok = r.ok, !.count = count, !.pre = Some(ViewStartDateValue),
                     !.prev = IF last.op = "changeViewPage"
                              THEN Some([count |-> last.count, pre |-> last.pre])
                              ELSE None]
       /\ UNCHANGED <<seed, now, log, clicks, changes>>

SetViewStartDate ==
  \E v \in StartDateInputs :
    LET r == set_viewStartDate(sch, v)
    IN /\ sch' = r.s
       /\ last' = [Did("set viewStartDate") EXCEPT !.ok = r.ok, !.arg = Some(v)]
       /\ UNCHANGED <<seed, now, log, clicks, changes>>

SetViewStartDay ==
  \E v \in Weekdays :
    LET r == set_viewStartDay(sch, v)
    IN /\ sch' = r.s
       /\ last' = [Did("set viewStartDay") EXCEPT !.ok = r.ok, !.count = v]
       /\ UNCHANGED <<seed, now, log, clicks, changes>>

SetViewNumDays ==
  \E n \in NumDaysInputs :
    /\ sch' = [sch EXCEPT !.viewNumDays = n]
    /\ last' = Did("set viewNumDays")
    /\ UNCHANGED <<seed, now, log, clicks, changes>>

ReadViewStartDate ==
  /\ sch' = get_viewStartDate(sch).s
  /\ last' = Did("get viewStartDate")
  /\ UNCHANGED <<seed, now, log, clicks, changes>>

\* The view window: items arrive, the host pages, assigns and reads the window.
Next ==
  \/ AddItem(ViewItemSpecs, MaxItems)
  \/ ChangeViewPage
  \/ SetViewStartDate
  \/ SetViewStartDay
  \/ SetViewNumDays
  \/ ReadViewStartDate

Spec == InitBase /\ [][Next]_vars

\* Selection: a loaded scheduler whose maxSelectedItems the host has configured,
\* and clicks on its items.
SelectLoad ==
  << [day |-> MkDate(14, 0), items |-> <<[sta |-> 540, dur |-> 60], [sta |-> 600, dur |-> 30]>>],
     [day |-> MkDate(15, 0), items |-> <<[sta |-> 540, dur |-> 60]>>],
     [day |-> MkDate(17, 0), items |-> <<[sta |-> 570, dur |-> 90]>>] >>
MaxSelectedInputs == 0..3

InitSelect ==
  /\ now \in NowDates
  /\ \E m \in MaxSelectedInputs :
       LET loaded == set_schedulingItemsByDay([Constructed EXCEPT !.maxSelectedItems = m],
                                              SelectLoad)
       IN /\ sch = loaded.s
          /\ log = loaded.items
          /\ seed = Len(loaded.items)
  /\ clicks = <<>>
  /\ last = Did("set schedulingItemsByDay")
  /\ changes = NoChanges

Toggle ==
  \E i \in 1..Len(log) :
    /\ Len(clicks) < MaxToggles
    /\ sch' = handleSelectItem(sch, log[i])
    /\ clicks' = Append(clicks, log[i])
    /\ last' = Did("handleSelectItem")
    /\ UNCHANGED <<seed, now, log, changes>>

NextSelect == Toggle

SpecSelect == InitSelect /\ [][NextSelect]_vars

\* The slot axis: the host pins the time bounds and the render offset, and the
\* axis is read.
StartTimeInputs == {0, 540, 555, 600}
EndTimeInputs == {500, 600, 1019, 1020}
RenderOffInputs == {0, 45, 60}

SetViewStartTimeMins ==
  \E v \in StartTimeInputs :
    /\ sch' = [sch EXCEPT !.viewStartTimeMins = v]
    /\ last' = Did("set viewStartTimeMins")
    /\ UNCHANGED <<seed, now, log, clicks, changes>>

SetViewEndTimeMins ==
  \E v \in EndTimeInputs :
    /\ sch' = [sch EXCEPT !.viewEndTimeMins = v]
    /\ last' = Did("set viewEndTimeMins")
    /\ UNCHANGED <<seed, now, log, clicks, changes>>

SetTimeViewRenderOffMins ==
  \E v \in RenderOffInputs :
    /\ sch' = [sch EXCEPT !.timeViewRenderOffMins = v]
    /\ last' = Did("set timeViewRenderOffMins")
    /\ UNCHANGED <<seed, now, log, clicks, changes>>

GranularityInputs == {15, 30, 60}

SetTimeViewGranularityMins ==
  \E v \in GranularityInputs :
    LET r == set_timeViewGranularityMins(sch, v)
    IN /\ sch' = r.s
       /\ last' = [Did("set timeViewGranularityMins") EXCEPT !.ok = r.ok, !.count = v]
       /\ UNCHANGED <<seed, now, log, clicks, changes>>

\* count is 1 when the read generated the axis, 0 when it returned the cached one
ReadTimeSlotsView ==
  /\ sch' = get_timeSlotsView(sch).s
  /\ last' = [Did("get timeSlotsView") EXCEPT
                !.count = IF IsSome(sch.timeSlotsView) THEN 0 ELSE 1]
  /\ UNCHANGED <<seed, now, log, clicks, changes>>

NextSlots ==
  \/ SetViewStartTimeMins
  \/ SetViewEndTimeMins
  \/ SetTimeViewRenderOffMins
  \/ SetTimeViewGranularityMins
  \/ ReadTimeSlotsView

SpecSlots == InitBase /\ [][NextSlots]_vars

\* The item store alone: addItem calls in any order.
NextStore == AddItem(StoreItemSpecs, MaxStoreItems)

SpecStore == InitBase /\ [][NextStore]_vars

\* The day grid: items of several starts and durations arrive, the host pages and
\* resizes the window, and the axis is read (every render reads it).
\* Saturday 2024-12-28, Wednesday 2025-01-01 and the Wednesday after it.
GridItemSpecs ==
  { [day |-> MkDate(Day20241228, 0), startTimeMins |-> 540, durationMins |-> 60],
    [day |-> MkDate(Day20241228, 1), startTimeMins |-> 540, durationMins |-> 90],
    [day |-> MkDate(17, 0), startTimeMins |-> 600, durationMins |-> 45],
    [day |-> MkDate(17, 0), startTimeMins |-> 600, durationMins |-> 180],
    [day |-> MkDate(17, 0), startTimeMins |-> 555, durationMins |-> 30],
    [day |-> MkDate(17, 1), startTimeMins |-> 570, durationMins |-> 15],
    [day |-> MkDate(24, 0), startTimeMins |-> 480, durationMins |-> 60] }
GridDates == {MkDate(d, t) : d \in {Day20241228, 17, 24}, t \in {0, 1}}

NextGrid ==
  \/ AddItem(GridItemSpecs, MaxGridItems)
  \/ ChangeViewPage
  \/ SetViewNumDays
  \/ ReadTimeSlotsView

SpecGrid == InitBase /\ [][NextGrid]_vars

\* Bulk loading: the host opens and closes brackets, adds items inside and outside
\* of them, purges the store and loads again, and reads the derived dates.
ChangeItemSpecs ==
  { [day |-> MkDate(Day20241228, 0), startTimeMins |-> 540, durationMins |-> 60],
    [day |-> MkDate(14, 1), startTimeMins |-> 570, durationMins |-> 30],
    [day |-> MkDate(17, 0), startTimeMins |-> 480, durationMins |-> 30],
    [day |-> MkDate(24, 1), startTimeMins |-> 600, durationMins |-> 60] }

BeginChanges ==
  /\ changes.depth < MaxDepth
  /\ changes' = beginChanges(changes)
  /\ last' = Did("beginChanges")
  /\ UNCHANGED <<sch, seed, now, log, clicks>>

\* count is the number of deferred recomputations the call ran
EndChanges ==
  /\ changes.depth > 0
  /\ LET r == endChanges(sch, changes)
     IN /\ sch' = r.s
        /\ changes' = r.c
        /\ last' = [Did("endChanges") EXCEPT !.count = IF r.flushed THEN 1 ELSE 0]
  /\ UNCHANGED <<seed, now, log, clicks>>

\* count is the number of recomputations the call ran
AddItemInChanges ==
  \E sp \in ChangeItemSpecs :
    /\ Len(log) < MaxChangeItems
    /\ LET r == addItemInChanges(sch, sp, seed, changes)
       IN sch' = r.s /\ changes' = r.c
    /\ seed' = seed + 1
    /\ log' = Append(log, SchedulingItem(sp, seed))
    /\ last' = [Did("addItem") EXCEPT !.count = IF changes.depth > 0 THEN 0 ELSE 1]
    /\ UNCHANGED <<now, clicks>>

\* refresh() of the showcase purges outside of a bracket
Purge ==
  /\ changes.depth = 0
  /\ seed <= MaxChangeItems
  /\ sch' = purge(sch)
  /\ log' = <<>>
  /\ last' = Did("purge")
  /\ UNCHANGED <<seed, now, clicks, changes>>

ReadEffectiveEndDate ==
  /\ sch' = get_effectiveEndDate(sch).s
  /\ last' = Did("get effectiveEndDate")
  /\ UNCHANGED <<seed, now, log, clicks, changes>>

NextChanges ==
  \/ BeginChanges
  \/ EndChanges
  \/ AddItemInChanges
  \/ Purge
  \/ ReadViewStartDate
  \/ ReadEffectiveEndDate
  \/ ReadTimeSlotsView

SpecChanges == InitBase /\ [][NextChanges]_vars

\* Item intake: addItem with item specs of every kind, with and without an id
\* of the caller's (101, 102), a day, and in-range times.
CheckedItemSpecs ==
  { [day |-> MkDate(Day20241228, 0), startTimeMins |-> 540, durationMins |-> 60],
    [day |-> MkDate(14, 0), startTimeMins |-> 600, durationMins |-> 30],
    [id |-> 101, day |-> MkDate(14, 0), startTimeMins |-> 540, durationMins |-> 60],
    [id |-> 102, day |-> MkDate(17, 1), startTimeMins |-> 0, durationMins |-> 30],
    [day |-> MkDate(14, 0), startTimeMins |-> 540, durationMins |-> 0],
    [day |-> MkDate(14, 0), startTimeMins |-> 540, durationMins |-> -30],
    [day |-> MkDate(14, 0), startTimeMins |-> -10, durationMins |-> 30],
    [day |-> MkDate(14, 0), startTimeMins |-> 1440, durationMins |-> 30],
    [startTimeMins |-> 540, durationMins |-> 60] }

\* arg is the spec passed; count is the number of calls so far that passed an id
AddItemChecked ==
  \E sp \in CheckedItemSpecs :
    LET r == tryAddItem(sch, sp, seed)
    IN /\ seed < MaxCalls
       /\ sch' = r.s
       /\ seed' = r.sd
       /\ log' = IF r.ok THEN Append(log, SchedulingItem(sp, seed)) ELSE log
       /\ last' = [Did("addItem") EXCEPT
                     !.ok = r.ok, !.arg = Some(sp),
                     !.count = (IF last.op = "addItem" THEN last.count ELSE 0)
                               + (IF "id" \in DOMAIN sp THEN 1 ELSE 0)]
       /\ UNCHANGED <<now, clicks, changes>>

NextChecked == AddItemChecked

SpecChecked == InitBase /\ [][NextChecked]_vars

\* Selection with enabled dates: the host assigns enabledStartDate and
\* enabledEndDate (plain reactive properties) and items are clicked.
EnabledStartInputs == {MkDate(15, 0)}
EnabledEndInputs == {MkDate(15, 2)}

SetEnabledStartDate ==
  \E v \in EnabledStartInputs :
    /\ sch' = [sch EXCEPT !.enabledStartDate = Some(v)]
    /\ last' = [Did("set enabledStartDate") EXCEPT !.arg = Some(v)]
    /\ UNCHANGED <<seed, now, log, clicks, changes>>

SetEnabledEndDate ==
  \E v \in EnabledEndInputs :
    /\ sch' = [sch EXCEPT !.enabledEndDate = Some(v)]
    /\ last' = [Did("set enabledEndDate") EXCEPT !.arg = Some(v)]
    /\ UNCHANGED <<seed, now, log, clicks, changes>>

NextEnabled ==
  \/ Toggle
  \/ SetEnabledStartDate
  \/ SetEnabledEndDate

SpecEnabled == InitSelect /\ [][NextEnabled]_vars

\* Queries: items arrive, the host assigns viewStartDate or pages, and the derived
\* dates, the axis and the items of a day are read in any order.
Queries ==
  {"get effectiveStartDate", "get effectiveEndDate", "get viewEndDate",
   "get timeSlotsView", "calculateTheDaysItems"}

\* the scheduler a query leaves behind
AfterQuery(s, q) ==
  CASE q = "get effectiveStartDate" -> get_effectiveStartDate(s).s
    [] q = "get effectiveEndDate" -> get_effectiveEndDate(s).s
    [] q = "get viewEndDate" -> get_viewEndDate(s).s
    [] q = "get timeSlotsView" -> get_timeSlotsView(s).s
    [] q = "calculateTheDaysItems" -> s

\* history: the date a successful viewStartDate assignment or changeViewPage left
\* as the start of the view, kept while only queries follow it
PinnedStart ==
  IF last.op \in {"set viewStartDate", "changeViewPage"} /\ last.ok
  THEN Some(ViewStartDateValue)
  ELSE IF last.op \in Queries THEN last.pre ELSE None

\* pre is the pinned start of the view, when there is one
ReadQuery ==
  \E q \in Queries :
    /\ sch' = AfterQuery(sch, q)
    /\ last' = [Did(q) EXCEPT !.pre = PinnedStart]
    /\ UNCHANGED <<seed, now, log, clicks, changes>>

NextReads ==
  \/ AddItem(ViewItemSpecs, MaxReadItems)
  \/ SetViewStartDate
  \/ ChangeViewPage
  \/ ReadQuery

SpecReads == InitBase /\ [][NextReads]_vars

\* Formatting: times of day are formatted under every combination of flags.
MinutesOfDay == 0..1439
FormatOptions ==
  [omitMinutesForWholeHours : BOOLEAN, omitMeridianSuffix : BOOLEAN,
   use24HourTime : BOOLEAN]

\* The call to come: count is the time of day, arg the options.
InitFormat ==
  /\ now \in NowDates
  /\ sch = Constructed
  /\ seed = 0
  /\ log = <<>>
  /\ clicks = <<>>
  /\ changes = NoChanges
  /\ \E m \in MinutesOfDay, o \in FormatOptions :
       last = [Did("call formatTime") EXCEPT !.count = m, !.arg = Some(o)]

\* pre is the result
FormatTime ==
  /\ last.op = "call formatTime"
  /\ last' = [last EXCEPT !.op = "formatTime",
                          !.pre = Some(formatTime(last.count, Val(last.arg)))]
  /\ UNCHANGED <<sch, seed, now, log, clicks, changes>>

NextFormat == FormatTime

SpecFormat == InitFormat /\ [][NextFormat]_vars

\* ============================================================== properties
LookupDates == {MkDate(d, t) : d \in 12..16, t \in 0..2}
LoggedOn(d) == SelectSeq(log, LAMBDA it : it.day.day = d)

\* C1: after any sequence of addItem calls the day buckets are strictly ascending
\* by calendar date: sorted by day, and no calendar date has two buckets.
C1_BucketsStrictlyAscending ==
  \A i \in 1..(Len(sch.schedulingItemsByDay) - 1) :
    sch.schedulingItemsByDay[i].day.day < sch.schedulingItemsByDay[i + 1].day.day

\* Items were added with a later date before an earlier one, and two items of one
\* calendar date carry different times of day.
C1_Witness ==
  /\ \E i, j \in 1..Len(log) : i < j /\ log[i].day.day > log[j].day.day
  /\ \E i, j \in 1..Len(log) :
       i # j /\ log[i].day.day = log[j].day.day /\ log[i].day.tod # log[j].day.tod
  /\ Len(sch.schedulingItemsByDay) >= 2

\* C2: calculateTheDaysItems(date) returns exactly the items added with that
\* calendar date, in the order they were added, and nothing (undefined) for a date
\* on which no item was added.
C2_LookupReturnsAddedItems ==
  \A date \in LookupDates :
    calculateTheDaysItems(sch, date) =
      IF LoggedOn(date.day) = <<>> THEN None ELSE Some(LoggedOn(date.day))

\* Two items of one date were added with an item of another date between them,
\* and the date is looked up with another time of day than the items carry.
C2_Witness ==
  /\ Len(log) = 3
  /\ log[1].day.day = log[3].day.day
  /\ log[2].day.day # log[1].day.day
  /\ log[1].day.tod = 1
  /\ Val(calculateTheDaysItems(sch, MkDate(log[1].day.day, 0))) = <<log[1], log[3]>>
  /\ calculateTheDaysItems(sch, MkDate(16, 0)) = None

\* what the selection law gives for a click on `it`
Toggled(sel, max, it) ==
  IF \E k \in 1..Len(sel) : sel[k] = it
  THEN SelectSeq(sel, LAMBDA e : e # it)
  ELSE IF Len(sel) >= max THEN (IF max > 1 THEN sel ELSE <<it>>)
  ELSE sel \o <<it>>

\* C3: a click on a selected item removes it and keeps the others in order; on an
\* unselected item with the selection at maxSelectedItems or above, the selection
\* stays as it is when maxSelectedItems > 1 and becomes [item] when
\* maxSelectedItems <= 1; otherwise the item goes to the end. With
\* maxSelectedItems = 2, clicks A, B, C give [A,B], then A gives [B], then C [B,C].
C3_ToggleLaw ==
  /\ [][last'.op = "handleSelectItem" /\ Len(clicks') = Len(clicks) + 1 =>
          sch'.selectedItems =
            Toggled(sch.selectedItems, sch.maxSelectedItems, clicks'[Len(clicks')])]_vars
  /\ [](sch.maxSelectedItems = 2 /\ Len(log) >= 3 =>
          LET A == log[1]
              B == log[2]
              C == log[3]
          IN /\ clicks = <<A, B, C>> => sch.selectedItems = <<A, B>>
             /\ clicks = <<A, B, C, A>> => sch.selectedItems = <<B>>
             /\ clicks = <<A, B, C, A, C>> => sch.selectedItems = <<B, C>>)

\* maxSelectedItems is 2 and A, B, C, A, C were clicked, in this order.
C3_Witness ==
  /\ sch.maxSelectedItems = 2
  /\ clicks = <<log[1], log[2], log[3], log[1], log[3]>>
  /\ sch.selectedItems = <<log[2], log[3]>>

\* C4: starting from the empty selection, after any sequence of clicks and for every
\* configured maxSelectedItems, selectedItems is no longer than maxSelectedItems.
C4_SelectionWithinMax == Len(sch.selectedItems) <= sch.maxSelectedItems

\* C5: after a changeViewPage call or an explicit viewStartDate assignment that
\* succeeds, the weekday of viewStartDate is viewStartDay, for viewStartDay in 0..6.
C5_StartsOnViewStartDay ==
  (last.op \in {"changeViewPage", "set viewStartDate"} /\ last.ok) =>
     getDay(ViewStartDateValue) = sch.viewStartDay

\* A page change that succeeded on a loaded scheduler whose week starts on
\* another day than the default Monday.
C5_Witness ==
  /\ last.op = "changeViewPage" /\ last.ok /\ last.count # 0
  /\ sch.viewStartDay # MONDAY
  /\ Len(log) > 0

\* C6: changeViewPage(n) directly followed by changeViewPage(-n) restores the
\* viewStartDate that held before the first of the two calls.
C6_PageRoundTrip ==
  (last.op = "changeViewPage" /\ IsSome(last.prev) /\ Val(last.prev).count = -last.count)
    => ViewStartDateValue = Val(Val(last.prev).pre)

\* changeViewPage(1) then changeViewPage(-1), both moving the window.
C6_Witness ==
  /\ last.op = "changeViewPage" /\ last.ok /\ last.count = -1
  /\ IsSome(last.prev) /\ Val(last.prev).count = 1
  /\ Val(last.pre) # Val(Val(last.prev).pre)
  /\ ViewStartDateValue = Val(Val(last.prev).pre)

\* C7: changeViewPage(count) moves viewStartDate by exactly 7 * count days, for
\* every count and every viewNumDays.
C7_PageMovesWholeWeeks ==
  last.op = "changeViewPage" =>
    ViewStartDateValue = addDays(Val(last.pre), 7 * last.count)

\* the view window as its readers see it
Window ==
  <<ViewStartDateValue, get_viewEndDate(sch).v, sch.viewNumDays, sch.viewStartDay,
    sch.viewStartTimeMins, sch.viewEndTimeMins>>

\* C8: an explicit viewStartDate assignment whose weekday is not viewStartDay
\* fails, and leaves viewStartDate and the rest of the view window as they were.
C8_BadStartDateRejected ==
  [][(last'.op = "set viewStartDate" /\ getDay(Val(last'.arg)) # sch.viewStartDay)
       => (~last'.ok /\ Window' = Window)]_vars

\* A rejected assignment on a scheduler that holds items and has been paged to a
\* window of its own.
C8_Witness ==
  /\ last.op = "set viewStartDate" /\ ~last.ok
  /\ Len(log) > 0
  /\ IsSome(sch.viewStartDate)
  /\ Val(sch.viewStartDate) # calculateStartDate(sch, get_effectiveStartDate(sch).v)

\* C9: a derived viewStartDate is effectiveStartDate minus
\* ((dayOfWeek(effectiveStartDate) - viewStartDay + 7) mod 7) days, at midnight, so
\* never later than effectiveStartDate and at most 6 days earlier.
C9_DerivedStartAlignsBackwards ==
  ~IsSome(sch.viewStartDate) =>
    LET e == get_effectiveStartDate(sch).v
        back == (getDay(e) - sch.viewStartDay + 7) % 7
    IN /\ ViewStartDateValue = addDays(setHoursMidnight(e), -back)
       /\ ViewStartDateValue.day <= e.day
       /\ ViewStartDateValue.day >= e.day - 6

\* the axis in closed form: n slots from lo, one every g minutes
AxisOf(start, end, off, g) ==
  LET lo == start - off
      hi == end + off
      n == IF hi > lo THEN (hi - lo + g - 1) \div g ELSE 0
  IN [k \in 1..n |-> <<lo + (k - 1) * g,
                       lo + (k - 1) * g >= start /\ lo + (k - 1) * g < end>>]

\* C10: the generated slot axis is the minutes
\* viewStartTimeMins - timeViewRenderOffMins + k * timeViewGranularityMins below
\* viewEndTimeMins + timeViewRenderOffMins, in increasing order, each in view
\* exactly when viewStartTimeMins <= m < viewEndTimeMins; granularity 30, bounds
\* 540/1020 and offset 60 give 20 slots from 480.
C10_SlotAxis ==
  (last.op = "get timeSlotsView" /\ last.count = 1) =>
    LET axis == Val(sch.timeSlotsView)
    IN /\ axis = AxisOf(sch.viewStartTimeMins, sch.viewEndTimeMins,
                        sch.timeViewRenderOffMins, sch.timeViewGranularityMins)
       /\ \A k \in 1..(Len(axis) - 1) : axis[k][1] < axis[k + 1][1]
       /\ (/\ sch.timeViewGranularityMins = 30
           /\ sch.viewStartTimeMins = 540 /\ sch.viewEndTimeMins = 1020
           /\ sch.timeViewRenderOffMins = 60)
          => (Len(axis) = 20 /\ axis[1][1] = 480)

\* The axis was generated for bounds that are not slot minutes of each other:
\* 555 to 1019 with offset 45.
C10_Witness ==
  /\ last.op = "get timeSlotsView" /\ last.count = 1
  /\ sch.viewStartTimeMins = 555 /\ sch.viewEndTimeMins = 1019
  /\ sch.timeViewRenderOffMins = 45
  /\ Len(Val(sch.timeSlotsView)) > 0

\* the records of renderTimeCells(d) that carry an item
ItemRecords(d) ==
  SelectSeq(renderTimeCells(sch, d).records, LAMBDA r : IsSome(r.item))

\* C11: every placement record that carries an item has span =
\* floor(durationMins / granularity), and no empty record is emitted for a slot it
\* consumes; an item 540/90 gets span 3 at granularity 30; a single item 540/60 on
\* 2024-12-28 in an otherwise empty store yields exactly one item-carrying record
\* for its day, with span 2.
C11_PlacementSpans ==
  /\ \A d \in GridDates :
       LET recs == renderTimeCells(sch, d).records
       IN \A k \in 1..Len(recs) :
            IsSome(recs[k].item) =>
              LET it == Val(recs[k].item)
                  sp == Val(recs[k].span)
                  g == sch.timeViewGranularityMins
              IN /\ sp * g <= it.durationMins
                 /\ it.durationMins < (sp + 1) * g
                 /\ it.startTimeMins = 540 /\ it.durationMins = 90 => sp = 3
                 /\ \A m \in 1..Len(recs) :
                      (/\ recs[m].slotIndex > recs[k].slotIndex
                       /\ recs[m].slotIndex < recs[k].slotIndex + sp)
                        => IsSome(recs[m].item)
  /\ (/\ Len(log) = 1
      /\ log[1].day = MkDate(Day20241228, 0)
      /\ log[1].startTimeMins = 540
      /\ log[1].durationMins = 60)
       => /\ Len(ItemRecords(log[1].day)) = 1
          /\ ItemRecords(log[1].day)[1].span = Some(2)
          /\ ItemRecords(log[1].day)[1].item = Some(log[1])

\* The 540/90 item is placed with span 3 and the next record starts three slots on.
C11_Witness ==
  \E d \in GridDates :
    LET r == renderTimeCells(sch, d)
    IN /\ r.outcome = "done"
       /\ \E k \in 1..(Len(r.records) - 1) :
            /\ IsSome(r.records[k].item)
            /\ Val(r.records[k].item).durationMins = 90
            /\ r.records[k].span = Some(3)
            /\ r.records[k + 1].slotIndex = r.records[k].slotIndex + 3

\* the stored items whose day lies in [viewStartDate, viewStartDate + viewNumDays)
InWindowItems ==
  LET from == ViewStartDateValue.day
  IN {k \in 1..Len(log) :
        log[k].day.day >= from /\ log[k].day.day < from + sch.viewNumDays}

\* C12: in every state reached by addItem and changeViewPage calls in which some
\* stored item's day lies in the view window, viewStartTimeMins is the least
\* startTimeMins and viewEndTimeMins the greatest endTimeMins of the items in the
\* window.
C12_TimeBoundsOfWindow ==
  InWindowItems # {} =>
    /\ \A k \in InWindowItems : sch.viewStartTimeMins <= log[k].startTimeMins
    /\ \E k \in InWindowItems : sch.viewStartTimeMins = log[k].startTimeMins
    /\ \A k \in InWindowItems : sch.viewEndTimeMins >= endTimeMins(log[k])
    /\ \E k \in InWindowItems : sch.viewEndTimeMins = endTimeMins(log[k])

\* the scheduler of default configuration holds the single item 540/60 of
\* 2024-12-28, and addItem was the last call
SingleItemAdded ==
  /\ last.op = "addItem"
  /\ Len(log) = 1
  /\ log[1].day.day = Day20241228
  /\ log[1].startTimeMins = 540
  /\ log[1].durationMins = 60
  /\ sch.viewNumDays = DefaultViewNumDays
  /\ sch.viewStartDay = MONDAY

\* C13 as stated: on an empty store with the default configuration, addItem of one
\* item on 2024-12-28 with startTimeMins 540 and durationMins 60 produces
\* viewStartTimeMins = 540 and viewEndTimeMins = 600.
C13_SingleItemBoundsAsStated ==
  SingleItemAdded => sch.viewStartTimeMins = 540 /\ sch.viewEndTimeMins = 600

\* C13 amended: the same addItem produces viewStartTimeMins = 540 and
\* viewEndTimeMins = 599, the item's endTimeMins (startTimeMins + durationMins - 1).
C13_SingleItemBounds ==
  SingleItemAdded => sch.viewStartTimeMins = 540 /\ sch.viewEndTimeMins = 599

C13_Witness ==
  SingleItemAdded /\ sch.viewEndTimeMins = endTimeMins(log[1])

\* C14: in every state where no stored item's day lies in the view window (the
\* empty store, or a page reached by changeViewPage that holds no item),
\* viewStartTimeMins is 540 and viewEndTimeMins is 1020.
C14_EmptyWindowDefaults ==
  InWindowItems = {} =>
    /\ sch.viewStartTimeMins = DefaultStartTimeMins
    /\ sch.viewEndTimeMins = DefaultEndTimeMins

\* C15: the cached slot axis is never stale: a read of the axis after an addItem, a
\* change of viewStartDate (assigned or by changeViewPage) or a change of
\* viewNumDays returns the sequence generated afresh from the current bounds, also
\* when the axis had been read before.
C15_AxisNeverStale ==
  get_timeSlotsView(sch).v =
    AxisOf(sch.viewStartTimeMins, sch.viewEndTimeMins,
           sch.timeViewRenderOffMins, sch.timeViewGranularityMins)

\* what the window is derived from, and the window: the buckets without the item
\* ids, the start of the view, its length and the time bounds
StripIds(buckets) ==
  [i \in 1..Len(buckets) |->
     [day |-> buckets[i].day,
      items |-> [k \in 1..Len(buckets[i].items) |->
                   [day |-> buckets[i].items[k].day,
                    startTimeMins |-> buckets[i].items[k].startTimeMins,
                    durationMins |-> buckets[i].items[k].durationMins]]]]
LoadedWindow(s) ==
  [buckets |-> StripIds(s.schedulingItemsByDay),
   viewStartDate |-> get_viewStartDate(s).v,
   viewNumDays |-> s.viewNumDays,
   viewStartTimeMins |-> s.viewStartTimeMins,
   viewEndTimeMins |-> s.viewEndTimeMins]
DerivedFields(s) ==
  <<s.effectiveStartDate, s.viewStartDate, s.viewStartTimeMins, s.viewEndTimeMins>>

\* the items added one by one, without a bracket, to a newly constructed scheduler
RECURSIVE EagerLoadFrom(_, _, _)
EagerLoadFrom(s, items, sd) ==
  IF items = <<>> THEN s
  ELSE EagerLoadFrom(addItem(s, Head(items), sd), Tail(items), sd + 1)
EagerLoad(items) == EagerLoadFrom(Constructed, items, 0)

StoredItems ==
  UNION {{sch.schedulingItemsByDay[i].items[k] :
            k \in 1..Len(sch.schedulingItemsByDay[i].items)} :
           i \in 1..Len(sch.schedulingItemsByDay)}

\* the item spec is one the specification rejects
InvalidItemSpec(spec) ==
  \/ "day" \notin DOMAIN spec
  \/ spec.durationMins <= 0
  \/ spec.startTimeMins < 0
  \/ spec.startTimeMins >= 1440

\* C17: addItem with durationMins <= 0, startTimeMins outside [0, 1440) or no day
\* fails and leaves the buckets as they were; hence every stored item has
\* durationMins > 0 and 0 <= startTimeMins < 1440.
C17_InvalidItemsRejected ==
  /\ [][(last'.op = "addItem" /\ InvalidItemSpec(Val(last'.arg))) =>
          /\ ~last'.ok
          /\ sch'.schedulingItemsByDay = sch.schedulingItemsByDay]_vars
  /\ [](\A it \in StoredItems :
          it.durationMins > 0 /\ it.startTimeMins >= 0 /\ it.startTimeMins < 1440)

\* C20: the item addItem creates has the id the caller supplied when one was
\* supplied, otherwise an id of the store's; after addItem calls that supplied no
\* id, the stored items have pairwise distinct ids.
C20_ItemIds ==
  /\ (last.op = "addItem" /\ last.ok /\ "id" \in DOMAIN Val(last.arg)) =>
       log[Len(log)].id = Val(last.arg).id
  /\ (last.op = "addItem" /\ last.count = 0) =>
       \A i, j \in 1..Len(log) : i # j => log[i].id # log[j].id

\* C18: assigning timeViewGranularityMins a value other than the default 30 fails,
\* and timeViewGranularityMins is 30 in every reachable state.
C18_GranularityFixed ==
  /\ sch.timeViewGranularityMins = 30
  /\ (last.op = "set timeViewGranularityMins" /\ last.count # 30) => ~last.ok

\* An assignment of 15 was attempted after the axis had been read.
C18_Witness ==
  /\ last.op = "set timeViewGranularityMins"
  /\ last.count = 15
  /\ ~last.ok
  /\ IsSome(sch.timeSlotsView)

AllDates == {MkDate(d, t) : d \in FirstDay..LastDay, t \in 0..2}

OutsideEnabled(s, it) ==
  \/ IsSome(s.enabledStartDate) /\ it.day.day < Val(s.enabledStartDate).day
  \/ IsSome(s.enabledEndDate) /\ it.day.day > Val(s.enabledEndDate).day

\* C21: with enabledStartDate/enabledEndDate set, an item whose day lies outside
\* [enabledStartDate, enabledEndDate] never becomes a member of selectedItems by a
\* toggle; assigning the bounds changes neither viewStartDate nor viewNumDays nor
\* the slot axis.
C21_EnabledDatesRestrictSelection ==
  [][/\ (last'.op = "handleSelectItem"
         /\ OutsideEnabled(sch, clicks'[Len(clicks')])
         /\ IndexOf(sch.selectedItems, clicks'[Len(clicks')]) = -1)
          => IndexOf(sch'.selectedItems, clicks'[Len(clicks')]) = -1
     /\ last'.op \in {"set enabledStartDate", "set enabledEndDate"} =>
          /\ get_viewStartDate(sch').v = get_viewStartDate(sch).v
          /\ sch'.viewNumDays = sch.viewNumDays
          /\ get_timeSlotsView(sch').v = get_timeSlotsView(sch).v]_vars

\* C22: at every read, after any sequence of addItem calls and reads of the
\* effective dates (none of them assigned), effectiveStartDate is the day of the
\* earliest bucket and effectiveEndDate the day of the latest bucket of the store.
C22_EffectiveDatesOfStore ==
  LET n == Len(sch.schedulingItemsByDay)
  IN n > 0 =>
       /\ get_effectiveStartDate(sch).v = sch.schedulingItemsByDay[1].day
       /\ get_effectiveEndDate(sch).v = sch.schedulingItemsByDay[n].day

\* C29: queries do not move the window: after a successful assignment of
\* viewStartDate or a changeViewPage, reads of effectiveStartDate, effectiveEndDate,
\* viewEndDate, the slot axis and the items of a day, in any order, leave
\* viewStartDate at the assigned or paged date.
C29_QueriesKeepWindow ==
  (last.op \in Queries /\ IsSome(last.pre)) => ViewStartDateValue = Val(last.pre)

\* the two characters of a number below 100
TwoDigits(n) == <<DigitChar(n \div 10), DigitChar(n % 10)>>
\* the characters of a number below 100 without a leading zero
PlainDigits(n) == IF n < 10 THEN <<DigitChar(n)>> ELSE TwoDigits(n)

\* C23: for minutesOfDay in 0..1439, in 24-hour mode the result is the zero-padded
\* hour followed by ":MM" (left out only when omitMinutesForWholeHours is set and
\* the minutes are 0) without am/pm; otherwise the hour shown is hour mod 12 with 0
\* shown as 12, am/pm is present exactly when omitMeridianSuffix is false, and it is
\* "am" exactly when hour < 12. 1380 gives 11 pm, 11:00 pm, 11 and 11:00.
C23_FormatTime ==
  last.op = "formatTime" =>
    LET m == last.count
        o == Val(last.arg)
        r == Val(last.pre)
        hh == m \div 60
        mm == m - 60 * hh
        shown == IF hh \in {0, 12} THEN 12 ELSE IF hh > 12 THEN hh - 12 ELSE hh
        hourText == IF o.use24HourTime THEN TwoDigits(hh) ELSE PlainDigits(shown)
        withMinutes == ~(o.omitMinutesForWholeHours /\ mm = 0)
    IN /\ r.text = IF withMinutes THEN hourText \o <<":">> \o TwoDigits(mm)
                   ELSE hourText
       /\ IsSome(r.meridiem) <=> (~o.use24HourTime /\ ~o.omitMeridianSuffix)
       /\ IsSome(r.meridiem) => (Val(r.meridiem) = "am" <=> hh < 12)
       /\ IsSome(r.meridiem) => Val(r.meridiem) \in {"am", "pm"}
       /\ (m = 1380 /\ ~o.use24HourTime) =>
            /\ r.text = IF o.omitMinutesForWholeHours THEN <<"1", "1">>
                        ELSE <<"1", "1", ":", "0", "0">>
            /\ r.meridiem = IF o.omitMeridianSuffix THEN None ELSE Some("pm")

\* 00:05 was formatted for the 12-hour clock, with its suffix: 12:05 am
C23_Witness ==
  /\ last.op = "formatTime"
  /\ last.count = 5
  /\ ~Val(last.arg).use24HourTime
  /\ Val(last.pre) = [text |-> <<"1", "2", ":", "0", "5">>, meridiem |-> Some("am")]

\* C24: for every day and every bucket of valid items (durationMins > 0, also
\* durations below the granularity or not a multiple of it) the placement pass
\* over the slot axis terminates with a finite list of records.
C24_PlacementTerminates ==
  (\A it \in StoredItems : it.durationMins > 0) =>
    \A d \in GridDates : renderTimeCells(sch, d).outcome = "done"

\* C25: when two or more items of one day have the same startTimeMins, the
\* placement of that day carries only the one added first (first in bucket order)
\* and none of the later ones; addItem accepts all of them.
C25_FirstOfSameStartPlaced ==
  /\ \A d \in GridDates :
       LET found == calculateTheDaysItems(sch, d)
           recs == ItemRecords(d)
       IN IsSome(found) =>
            \A a, b \in 1..Len(Val(found)) :
              (a < b /\ Val(found)[a].startTimeMins = Val(found)[b].startTimeMins) =>
                \A k \in 1..Len(recs) : recs[k].item # Some(Val(found)[b])
  /\ \A k \in 1..Len(log) : log[k] \in StoredItems

\* Two items of one day start at the same minute, and the first added is placed.
C25_Witness ==
  /\ Len(log) >= 2
  /\ log[1].day.day = log[2].day.day
  /\ log[1].startTimeMins = log[2].startTimeMins
  /\ log[1].durationMins # log[2].durationMins
  /\ \E k \in 1..Len(ItemRecords(log[1].day)) :
       ItemRecords(log[1].day)[k].item = Some(log[1])

\* C26: in every reachable state, also after viewStartDay was assigned a new value
\* in 0..6 when viewStartDate had already been read or set, the value viewStartDate
\* returns has the weekday viewStartDay.
C26_StartWeekdayFollowsStartDay ==
  getDay(ViewStartDateValue) = sch.viewStartDay

\* C27: a placement record carries an item only for a slot that is in view and
\* whose minute equals the item's startTimeMins exactly; out-of-view slots and
\* in-view slots without an item starting at their minute yield empty records, so
\* an item whose startTimeMins is not a slot minute, or lies outside
\* [viewStartTimeMins, viewEndTimeMins), is never placed.
C27_PlacedAtExactSlot ==
  \A d \in GridDates :
    LET axis == get_timeSlotsView(sch).v
        recs == renderTimeCells(sch, d).records
    IN \A k \in 1..Len(recs) :
         LET slot == axis[recs[k].slotIndex + 1]
         IN /\ IsSome(recs[k].item) =>
                 /\ slot[2]
                 /\ slot[1] = Val(recs[k].item).startTimeMins
                 /\ Val(recs[k].item).startTimeMins >= sch.viewStartTimeMins
                 /\ Val(recs[k].item).startTimeMins < sch.viewEndTimeMins
            /\ ~slot[2] => recs[k].item = None

\* C28: addItem normalises the day to midnight: for every addItem whose day has a
\* time of day other than 00:00, the stored item's day and the day of the bucket
\* created for it are at 00:00.
C28_DayNormalizedToMidnight ==
  /\ \A it \in StoredItems : it.day.tod = 0
  /\ \A i \in 1..Len(sch.schedulingItemsByDay) : sch.schedulingItemsByDay[i].day.tod = 0

\* the rows a day's records use: span for an item record, 1 for an empty one
RECURSIVE RowsUsed(_)
RowsUsed(recs) ==
  IF recs = <<>> THEN 0
  ELSE (IF IsSome(Head(recs).item) THEN Val(Head(recs).span) ELSE 1)
       + RowsUsed(Tail(recs))

\* the dates of the view window
WindowDates ==
  {d \in GridDates : d.day >= ViewStartDateValue.day
                     /\ d.day < ViewStartDateValue.day + sch.viewNumDays}

\* C30: for every day of the window and every reachable store, each item-carrying
\* placement record fits on the shared axis: slotIndex + span is at most the number
\* of slots, so the rows of the day's records add up to the number of slots.
C30_RecordsFitAxis ==
  \A d \in WindowDates :
    LET axis == get_timeSlotsView(sch).v
        r == renderTimeCells(sch, d)
    IN r.outcome = "done" =>
         /\ \A k \in 1..Len(r.records) :
              IsSome(r.records[k].item) =>
                r.records[k].slotIndex + Val(r.records[k].span) <= Len(axis)
         /\ RowsUsed(r.records) = Len(axis)

====
